---- MODULE Spec2Model ----
(***************************************************************************)
(* Model of the Run page component (runs/RunFragments.tsx): the step       *)
(* selection, the log filter, the keys handed to the log filter and the    *)
(* timeline panel.  Strings are sequences of one-character strings, so     *)
(* that joining keys into a query and parsing a query back are computed.   *)
(* An optional value (run?, executionPlan?) is a sequence of length 0 or 1. *)
(***************************************************************************)
EXTENDS Integers, Sequences, FiniteSets, TLC

\* ---------------------------------------------------------------- bounds
MaxNodes == 1       \* log entries delivered after mount

\* ------------------------------------------------------------ step keys
ka == <<"a">>
kb == <<"b">>
kc == <<"c">>

\* ------------------------------------------------------- sequence helpers
Range(s) == {s[i] : i \in 1..Len(s)}

NoDuplicates(s) == \A i, j \in 1..Len(s) : s[i] = s[j] => i = j

\* Array.prototype.indexOf, 0-based, -1 when absent
IndexOf(arr, x) ==
  IF \E i \in 1..Len(arr) : arr[i] = x
    THEN (CHOOSE i \in 1..Len(arr) : arr[i] = x /\ \A j \in 1..(i - 1) : arr[j] # x) - 1
    ELSE -1

\* splice one position too far
SpliceNext(arr, index) ==
  [i \in 1..(Len(arr) - 1) |-> IF i <= index + 1 THEN arr[i] ELSE arr[i + 1]]

\* Array.prototype.splice(index, 1) on a copy: drops the element at the
\* 0-based index
Splice(arr, index) ==
  [i \in 1..(Len(arr) - 1) |-> IF i <= index THEN arr[i] ELSE arr[i + 1]]

RECURSIVE Join(_, _)
\* Array.prototype.join
Join(arr, sep) ==
  IF Len(arr) = 0 THEN <<>>
  ELSE IF Len(arr) = 1 THEN arr[1]
  ELSE arr[1] \o sep \o Join(Tail(arr), sep)

RECURSIVE Flatten(_)
Flatten(ss) == IF ss = <<>> THEN <<>> ELSE Head(ss) \o Flatten(Tail(ss))

RECURSIVE Dedup(_)
\* keeps the first occurrence of every element
Dedup(s) ==
  IF s = <<>> THEN <<>>
  ELSE LET init == Dedup(SubSeq(s, 1, Len(s) - 1))
           last == s[Len(s)]
       IN IF last \in Range(init) THEN init ELSE Append(init, last)

\* ------------------------------------------------- execution plan graph
\* The plan of the run: b and c both depend on a.
Plan ==
  [steps |-> << [key |-> ka, dependsOn |-> <<>>],
               [key |-> kb, dependsOn |-> <<ka>>],
               [key |-> kc, dependsOn |-> <<ka>>] >>,
   artifactsPersisted |-> TRUE]

StepKeys(plan) == [i \in 1..Len(plan.steps) |-> plan.steps[i].key]

DependsOn(plan, key) ==
  Flatten([i \in 1..Len(plan.steps) |->
             IF plan.steps[i].key = key THEN plan.steps[i].dependsOn ELSE <<>>])

Dependents(plan, key) ==
  Flatten([i \in 1..Len(plan.steps) |->
             IF key \in Range(plan.steps[i].dependsOn)
               THEN <<plan.steps[i].key>> ELSE <<>>])

RECURSIVE Traverse(_, _, _, _)
\* visits every key reachable from the frontier, never one twice; up = TRUE
\* follows dependsOn edges, up = FALSE the inverse edges
Traverse(plan, up, frontier, visited) ==
  IF frontier = <<>> THEN visited
  ELSE LET h == Head(frontier)
       IN IF h \in Range(visited)
            THEN Traverse(plan, up, Tail(frontier), visited)
            ELSE Traverse(plan, up,
                          Tail(frontier) \o
                            (IF up THEN DependsOn(plan, h) ELSE Dependents(plan, h)),
                          Append(visited, h))

\* ------------------------------------------------ selection query engine
RECURSIVE SplitClauses(_, _)
\* splits the query at commas; cur is the clause being read
SplitClauses(query, cur) ==
  IF query = <<>> THEN <<cur>>
  ELSE IF Head(query) = "," THEN <<cur>> \o SplitClauses(Tail(query), <<>>)
  ELSE SplitClauses(Tail(query), Append(cur, Head(query)))

RECURSIVE Trim(_)
Trim(s) ==
  IF s = <<>> THEN s
  ELSE IF Head(s) = " " THEN Trim(Tail(s))
  ELSE IF s[Len(s)] = " " THEN Trim(SubSeq(s, 1, Len(s) - 1))
  ELSE s

RECURSIVE StripLeadingPlus(_)
StripLeadingPlus(s) ==
  IF s # <<>> /\ Head(s) = "+" THEN StripLeadingPlus(Tail(s)) ELSE s

RECURSIVE StripTrailingPlus(_)
StripTrailingPlus(s) ==
  IF s # <<>> /\ s[Len(s)] = "+"
    THEN StripTrailingPlus(SubSeq(s, 1, Len(s) - 1)) ELSE s

\* the step name of a clause, without its direction operators
ClauseName(clause) == StripTrailingPlus(StripLeadingPlus(clause))

IsName(s) == s # <<>> /\ \A i \in 1..Len(s) : s[i] \notin {"+", "*", ",", " "}

\* the keys one clause selects
ResolveClause(plan, rawClause) ==
  LET clause == Trim(rawClause)
      name == ClauseName(clause)
      up == clause # <<>> /\ Head(clause) = "+"
      down == clause # <<>> /\ clause[Len(clause)] = "+"
  IN IF clause = <<"*">> THEN StepKeys(plan)
     ELSE IF ~IsName(name) \/ name \notin Range(StepKeys(plan)) THEN <<>>
     ELSE Dedup(<<name>>
                \o (IF up THEN Traverse(plan, TRUE, <<name>>, <<>>) ELSE <<>>)
                \o (IF down THEN Traverse(plan, FALSE, <<name>>, <<>>) ELSE <<>>))

\* resolveSelection(plan, queryString): the ordered, de-duplicated keys
queryStringToSelection(plan, query) ==
  LET clauses == SplitClauses(query, <<>>)
  IN Dedup(Flatten([i \in 1..Len(clauses) |-> ResolveClause(plan, clauses[i])]))

\* ------------------------------------------------------------ input sets
\* {token, value} pairs a logQuery is made of
QueryToken(value) == [token |-> "query", value |-> value]
StepToken == [token |-> "step", value |-> kc]
TypeToken == [token |-> "type", value |-> <<"x">>]
\* free text has no token
TextToken == [token |-> "", value |-> <<"b">>]

\* the logQuery values the URL or a toolbar edit can supply
LogQueries ==
  { <<>>,
    <<QueryToken(<<"+", "b">>)>>,
    <<StepToken, TextToken>>,
    <<QueryToken(<<"+", "b">>), QueryToken(<<"c">>)>>,
    <<QueryToken(<<"c">>), TypeToken, QueryToken(<<"+", "b">>)>>,
    <<QueryToken(<<"b">>), QueryToken(<<"a", "+">>)>> }

\* focusedTime: 0 is "not set"
FocusedTimes == {0, 7}

\* the step query of the URL; "" is "not given"
StepQueries == {<<>>, <<"+", "c">>}

\* LogFilter values the URL or a toolbar edit can supply
LogFilters ==
  [logQuery : LogQueries, focusedTime : FocusedTimes, stepQuery : StepQueries]

\* the filters one toolbar edit of the current filter can produce
ToolbarFilters(filter) ==
  {[filter EXCEPT !.logQuery = q] : q \in LogQueries}
    \cup {[filter EXCEPT !.focusedTime = t] : t \in FocusedTimes}

\* the run prop: absent, or a run with a status and an optional plan
RunInputs ==
  {<<>>} \cup
  {<<[status |-> st, executionPlan |-> pl]>> :
     st \in {"QUEUED", "STARTED"}, pl \in {<<>>, <<Plan>>}}

\* queries typed into the selection input of the Gantt chart
SelectionQueries == {<<"*">>, <<>>, <<"a", "+">>, <<"b", ",", " ", "+", "c">>}

\* ----------------------------------------------------------------- state
VARIABLES
  run,             \* props.run
  logsFilter,      \* useState<LogFilter>
  selection,       \* useState<StepSelection>: [query, keys]
  hideNonMatches,  \* useState(true) of RunWithData
  nNodes,          \* length of allNodes
  loaded,          \* LogsProvider's loaded flag
  lastEvent,       \* the handler that ran last, and what it left behind
  view             \* what the last render handed to the child components

vars == <<run, logsFilter, selection, hideNonMatches, nNodes, loaded, lastEvent, view>>

\* run?.executionPlan
ExecutionPlanOf(r) == IF r = <<>> THEN <<>> ELSE r[1].executionPlan

\* the initializer of the selection state
InitialSelection(filter, r) ==
  LET stepQuery == filter.stepQuery
      executionPlan == ExecutionPlanOf(r)
  IN IF stepQuery = <<>> \/ executionPlan = <<>>
       THEN [query |-> <<"*">>, keys |-> <<>>]
       ELSE [query |-> stepQuery,
             keys |-> queryStringToSelection(executionPlan[1], stepQuery)]

\* a fresh filter instead of a copy of the previous one
NextLogsFilterFresh(previous, sel) ==
  [logQuery |-> IF sel.query # <<"*">>
                  THEN <<[token |-> "query", value |-> sel.query]>> ELSE <<>>,
   focusedTime |-> 0,
   stepQuery |-> previous.stepQuery]

\* the state updater onSetSelection hands to setLogsFilter
NextLogsFilter(previous, sel) ==
  [previous EXCEPT !.logQuery =
     IF sel.query # <<"*">> THEN <<[token |-> "query", value |-> sel.query]>>
     ELSE <<>>]

\* every pair that has a token is resolved, whatever the token
selectedKeysForFilterAnyToken(executionPlan, logQuery) ==
  IF executionPlan # <<>>
    THEN Flatten([i \in 1..Len(logQuery) |->
                    IF logQuery[i].token # ""
                      THEN queryStringToSelection(executionPlan[1], logQuery[i].value)
                      ELSE <<>>])
    ELSE <<>>

\* the memoized keys handed to LogsProvider as selectedSteps
selectedKeysForFilter(executionPlan, logQuery) ==
  IF executionPlan # <<>>
    THEN Flatten([i \in 1..Len(logQuery) |->
                    IF logQuery[i].token # "" /\ logQuery[i].token = "query"
                      THEN queryStringToSelection(executionPlan[1], logQuery[i].value)
                      ELSE <<>>])
    ELSE <<>>

\* the plan is looked at before the run's status
ganttPlanFirst(r, logsLoading) ==
  IF logsLoading THEN "loading"
  ELSE IF ExecutionPlanOf(r) # <<>> THEN "gantt"
  ELSE IF r # <<>> /\ r[1].status = "QUEUED" THEN "queued"
  ELSE "error"

\* which of the four timeline views gantt() returns
gantt(r, logsLoading) ==
  IF logsLoading THEN "loading"
  ELSE IF r # <<>> /\ r[1].status = "QUEUED" THEN "queued"
  ELSE IF ExecutionPlanOf(r) # <<>> THEN "gantt"
  ELSE "error"

\* one render of Run and RunWithData: the props the children receive
Render(r, filter, sel, isLoaded) ==
  LET timeline == gantt(r, ~isLoaded)
  IN [timeline |-> timeline,
      selectedSteps |-> selectedKeysForFilter(ExecutionPlanOf(r), filter.logQuery),
      ganttFocusedTime |-> IF timeline = "gantt" THEN filter.focusedTime ELSE 0,
      ganttSelection |-> IF timeline = "gantt" THEN sel ELSE [query |-> <<>>, keys |-> <<>>],
      tableFocusedTime |-> filter.focusedTime,
      toolbarSelection |-> sel]

NoClick == [stepKey |-> <<>>, shiftKey |-> FALSE, priorKeys |-> <<>>]

Event(type) == [type |-> type] @@ NoClick

\* newSelected is the selection's own array, not a copy of it
ClickArraysAliased(keys, stepKey, shiftKey) ==
  LET index == IndexOf(keys, stepKey)
      newSelected == IF shiftKey
                       THEN IF index # -1 THEN Splice(keys, index)
                            ELSE Append(keys, stepKey)
                       ELSE IF Len(keys) = 1 /\ index # -1 THEN <<>>
                            ELSE <<stepKey>>
  IN [newSelected |-> newSelected,
      priorKeys |-> IF shiftKey THEN newSelected ELSE keys]

\* a shift-click always pushes the key
ClickArraysAlwaysPush(keys, stepKey, shiftKey) ==
  LET index == IndexOf(keys, stepKey)
  IN [newSelected |-> IF shiftKey THEN Append(keys, stepKey)
                      ELSE IF Len(keys) = 1 /\ index # -1 THEN <<>>
                      ELSE <<stepKey>>,
      priorKeys |-> keys]

\* a plain click deselects whenever the key is selected
ClickArraysDeselectAny(keys, stepKey, shiftKey) ==
  LET index == IndexOf(keys, stepKey)
  IN [newSelected |-> IF shiftKey
                        THEN IF index # -1 THEN Splice(keys, index)
                             ELSE Append(keys, stepKey)
                        ELSE IF index # -1 THEN <<>> ELSE <<stepKey>>,
      priorKeys |-> keys]

\* the arrays onClickStep leaves behind: newSelected, and the keys array of
\* the selection it read (priorKeys), which it copies and never writes
ClickArrays(keys, stepKey, shiftKey) ==
  LET index == IndexOf(keys, stepKey)
  IN IF shiftKey
       THEN [newSelected |-> IF index # -1 THEN Splice(keys, index)
                             ELSE Append(keys, stepKey),
             priorKeys |-> keys]
       ELSE [newSelected |-> IF Len(keys) = 1 /\ index # -1 THEN <<>>
                             ELSE <<stepKey>>,
             priorKeys |-> keys]

\* newSelected.join(', ') || '*'
QueryOf(newSelected) ==
  LET joined == Join(newSelected, <<",", " ">>)
  IN IF joined = <<>> THEN <<"*">> ELSE joined

\* ---------------------------------------------------------------- actions
Init ==
  /\ run \in RunInputs
  /\ logsFilter \in LogFilters
  /\ selection = InitialSelection(logsFilter, run)
  /\ hideNonMatches = TRUE
  /\ nNodes = 0
  /\ loaded = FALSE
  /\ lastEvent = Event("mount")
  /\ view = Render(run, logsFilter, selection, loaded)

\* the toolbar replaces the log filter
onSetLogsFilter(f) ==
  /\ logsFilter' = f
  /\ lastEvent' = Event("onSetLogsFilter")
  /\ view' = Render(run, logsFilter', selection, loaded)
  /\ UNCHANGED <<run, selection, hideNonMatches, nNodes, loaded>>

\* the state changes of onSetSelection, shared with onClickStep
SetSelection(sel) ==
  /\ selection' = sel
  /\ logsFilter' = NextLogsFilter(logsFilter, sel)
  /\ view' = Render(run, logsFilter', selection', loaded)
  /\ UNCHANGED <<run, hideNonMatches, nNodes, loaded>>

\* the Gantt chart, the only holder of the handler, sets a selection
onSetSelection(query) ==
  /\ view.timeline = "gantt"
  /\ SetSelection([query |-> query,
                   keys |-> queryStringToSelection(ExecutionPlanOf(run)[1], query)])
  /\ lastEvent' = Event("onSetSelection")

\* a click on a step of the Gantt chart
onClickStep(stepKey, shiftKey) ==
  /\ view.timeline = "gantt"
  /\ stepKey \in Range(StepKeys(ExecutionPlanOf(run)[1]))
  /\ LET arrays == ClickArrays(selection.keys, stepKey, shiftKey)
     IN /\ SetSelection([query |-> QueryOf(arrays.newSelected),
                         keys |-> arrays.newSelected])
        /\ lastEvent' = [type |-> "onClickStep", stepKey |-> stepKey,
                         shiftKey |-> shiftKey, priorKeys |-> arrays.priorKeys]

onHideNonMatches(checked) ==
  /\ hideNonMatches' = checked
  /\ lastEvent' = Event("onHideNonMatches")
  /\ view' = Render(run, logsFilter, selection, loaded)
  /\ UNCHANGED <<run, logsFilter, selection, nNodes, loaded>>

\* LogsProvider delivers its first or a longer list of nodes
LogsUpdate(grow) ==
  /\ nNodes + grow <= MaxNodes
  /\ nNodes' = nNodes + grow
  /\ loaded' = TRUE
  /\ lastEvent' = Event("LogsUpdate")
  /\ view' = Render(run, logsFilter, selection, loaded')
  /\ UNCHANGED <<run, logsFilter, selection, hideNonMatches>>

\* the parent passes a new run prop: the run or its plan arrives or changes
RunUpdate(r) ==
  /\ r # run
  /\ run' = r
  /\ lastEvent' = Event("RunUpdate")
  /\ view' = Render(run', logsFilter, selection, loaded)
  /\ UNCHANGED <<logsFilter, selection, hideNonMatches, nNodes, loaded>>

Next ==
  \/ \E f \in ToolbarFilters(logsFilter) : onSetLogsFilter(f)
  \/ \E q \in SelectionQueries : onSetSelection(q)
  \/ \E k \in {ka, kb, kc}, s \in BOOLEAN : onClickStep(k, s)
  \/ \E c \in BOOLEAN : onHideNonMatches(c)
  \/ \E g \in {0, 1} : LogsUpdate(g)
  \/ \E r \in RunInputs : RunUpdate(r)

Spec == Init /\ [][Next]_vars

\* ------------------------------------------------------------ properties
PlanPresent == ExecutionPlanOf(run) # <<>>

Queued == run # <<>> /\ run[1].status = "QUEUED"

\* a step of the component in which onClickStep ran
ClickStep == lastEvent'.type = "onClickStep"
ShiftClickStep == ClickStep /\ lastEvent'.shiftKey
PlainClickStep == ClickStep /\ ~lastEvent'.shiftKey

\* the literal step names written in a query, clause by clause
LiteralNames(query) ==
  LET clauses == SplitClauses(query, <<>>)
  IN Flatten([i \in 1..Len(clauses) |->
                IF IsName(ClauseName(Trim(clauses[i])))
                  THEN <<ClauseName(Trim(clauses[i]))>> ELSE <<>>])

\* C1: with a plan, the selection's keys are its query resolved against the
\* plan: `*` carries every step, and empty keys never carry `*`.
C1_SelectionIsResolvedQuery ==
  PlanPresent =>
    /\ selection.keys = queryStringToSelection(ExecutionPlanOf(run)[1], selection.query)
    /\ (selection.query = <<"*">> => selection.keys = StepKeys(ExecutionPlanOf(run)[1]))
    /\ (selection.keys = <<>> => selection.query # <<"*">>)

\* C2: without a plan, the keys handed to the log filter are the literal
\* names of the filter's query tokens, and the selection built at mount from
\* a URL step query has the literal names of that query as its keys.
C2_LiteralNamesWithoutPlan ==
  ~PlanPresent =>
    /\ view.selectedSteps =
         Flatten([i \in 1..Len(logsFilter.logQuery) |->
                    IF logsFilter.logQuery[i].token = "query"
                      THEN LiteralNames(logsFilter.logQuery[i].value) ELSE <<>>])
    /\ (lastEvent.type = "mount" /\ logsFilter.stepQuery # <<>>
          => selection.keys = LiteralNames(logsFilter.stepQuery))

\* the positions of the query tokens of a logQuery
QueryPositions(logQuery) == {i \in 1..Len(logQuery) : logQuery[i].token = "query"}

IsPrefix(p, s) == Len(p) <= Len(s) /\ SubSeq(s, 1, Len(p)) = p
IsSuffix(p, s) == Len(p) <= Len(s) /\ SubSeq(s, Len(s) - Len(p) + 1, Len(s)) = p

\* C3: with a plan, the keys handed to the log filter are exactly the keys
\* the query engine resolves for the filter's query tokens, in token order:
\* the first query token's keys lead, the last one's close, and tokens of
\* any other kind add nothing.
C3_QueryTokensResolved ==
  PlanPresent =>
    LET plan == ExecutionPlanOf(run)[1]
        logQuery == logsFilter.logQuery
        at == QueryPositions(logQuery)
        Resolved(i) == queryStringToSelection(plan, logQuery[i].value)
    IN /\ Range(view.selectedSteps) = UNION {Range(Resolved(i)) : i \in at}
       /\ \A i \in at :
            /\ (\A j \in at : i <= j) => IsPrefix(Resolved(i), view.selectedSteps)
            /\ (\A j \in at : j <= i) => IsSuffix(Resolved(i), view.selectedSteps)

C3_Witness ==
  /\ PlanPresent
  /\ logsFilter.logQuery =
       <<QueryToken(<<"c">>), TypeToken, QueryToken(<<"+", "b">>)>>
  /\ view.selectedSteps = <<kc, kb, ka>>

\* C4: the selection changes only in a step of onSetSelection or
\* onClickStep, and a click leaves the keys array of the selection it read
\* as it was.
C4_SelectionSupersededOnlyByEdits ==
  [][/\ (selection' # selection
           => lastEvent'.type \in {"onSetSelection", "onClickStep"})
     /\ (ClickStep => lastEvent'.priorKeys = selection.keys)]_vars

\* the plan arrived after mount: the URL's step query is not resolved again
C4_Witness ==
  /\ lastEvent.type = "RunUpdate"
  /\ PlanPresent
  /\ logsFilter.stepQuery # <<>>
  /\ selection = [query |-> <<"*">>, keys |-> <<>>]
  /\ nNodes = MaxNodes
  /\ ~hideNonMatches

\* C5: a click on a selection without duplicate keys leaves a selection
\* without duplicate keys.
C5_ClicksKeepKeysDistinct ==
  [][ClickStep /\ NoDuplicates(selection.keys) => NoDuplicates(selection'.keys)]_vars

C5_Witness ==
  /\ lastEvent.type = "onClickStep"
  /\ lastEvent.shiftKey
  /\ Len(lastEvent.priorKeys) = 2
  /\ Len(selection.keys) = 3

\* C6: the Gantt chart and the log table receive logsFilter.focusedTime, and
\* a selection edit or step click changes no field of the log filter but
\* logQuery.
C6_FocusedTimeThreaded ==
  /\ [](/\ view.tableFocusedTime = logsFilter.focusedTime
        /\ (view.timeline = "gantt" => view.ganttFocusedTime = logsFilter.focusedTime))
  /\ [][lastEvent'.type \in {"onSetSelection", "onClickStep"}
          => /\ logsFilter'.focusedTime = logsFilter.focusedTime
             /\ logsFilter'.stepQuery = logsFilter.stepQuery
             /\ DOMAIN logsFilter' = DOMAIN logsFilter]_vars

C6_Witness ==
  /\ lastEvent.type = "onClickStep"
  /\ logsFilter.focusedTime = 7
  /\ view.ganttFocusedTime = 7
  /\ view.tableFocusedTime = 7
  /\ logsFilter.stepQuery # <<>>
  /\ logsFilter.logQuery = <<QueryToken(<<"b">>)>>

\* the query is the keys joined by ", ", or `*` for no keys: read back clause
\* by clause it gives the keys, each after the first behind one space
QueryIsJoinedKeys(sel) ==
  IF sel.keys = <<>> THEN sel.query = <<"*">>
  ELSE LET clauses == SplitClauses(sel.query, <<>>)
       IN /\ Len(clauses) = Len(sel.keys)
          /\ \A i \in 1..Len(clauses) :
               clauses[i] = (IF i = 1 THEN sel.keys[i] ELSE <<" ">> \o sel.keys[i])

\* C7: a shift-click on k removes k from the keys when it is there, keeping
\* the others in order, appends it when it is not, and the new query is the
\* new keys joined by ", ", or `*` when there are none.
C7_ShiftClickToggles ==
  [][ShiftClickStep =>
       LET k == lastEvent'.stepKey
           IsOther(x) == x # k
       IN /\ (k \in Range(selection.keys)
                => selection'.keys = SelectSeq(selection.keys, IsOther))
          /\ (k \notin Range(selection.keys)
                => selection'.keys = Append(selection.keys, k))
          /\ QueryIsJoinedKeys(selection')]_vars

C7_Witness ==
  /\ lastEvent.type = "onClickStep"
  /\ lastEvent.shiftKey
  /\ lastEvent.stepKey = kb
  /\ lastEvent.priorKeys = <<ka, kb, kc>>
  /\ selection = [query |-> <<"a", ",", " ", "c">>, keys |-> <<ka, kc>>]

\* C8: a plain click on k empties the selection (query `*`) when the keys
\* are exactly [k], and otherwise selects k alone (query k); the keys then
\* hold at most one key.
C8_PlainClickSelectsOne ==
  [][PlainClickStep =>
       LET k == lastEvent'.stepKey
       IN /\ (selection.keys = <<k>>
                => selection' = [query |-> <<"*">>, keys |-> <<>>])
          /\ (selection.keys # <<k>>
                => selection' = [query |-> k, keys |-> <<k>>])
          /\ Len(selection'.keys) <= 1]_vars

C8_Witness ==
  /\ lastEvent.type = "onClickStep"
  /\ ~lastEvent.shiftKey
  /\ lastEvent.stepKey = ka
  /\ lastEvent.priorKeys = <<kb, ka>>
  /\ selection = [query |-> ka, keys |-> <<ka>>]

\* C9: the timeline is the loading state while logs load, else the queued
\* state for a QUEUED run, else the Gantt chart when there is a plan, else
\* the error; so the chart is shown only once loaded, not queued, with a plan.
C9_TimelinePriority ==
  /\ view.timeline \in {"loading", "queued", "gantt", "error"}
  /\ (view.timeline = "loading") = ~loaded
  /\ (view.timeline = "queued") = (loaded /\ Queued)
  /\ (view.timeline = "gantt") = (loaded /\ ~Queued /\ PlanPresent)
  /\ (view.timeline = "error") = (loaded /\ ~Queued /\ ~PlanPresent)

C9_Witness ==
  /\ loaded
  /\ Queued
  /\ PlanPresent
  /\ view.timeline = "queued"

====
